---- MODULE Spec2Model ----
(***************************************************************************)
(* Staleness-tracked metrics registry of ruuvi-collector-rs.               *)
(*                                                                         *)
(* The sweep version (src/ruuvi_gauges.rs): six Prometheus gauge vectors   *)
(* keyed by the device address, a mutex-guarded last_seen table, the task  *)
(* that consumes BLE events and calls update_sensor_values, and the        *)
(* cleanup task spawned by create_and_register.                            *)
(*                                                                         *)
(* Time is discrete; one tick is 1/TicksPerSecond of a second.  Each       *)
(* operation on one GaugeVec (with_label_values(..).set(..) or             *)
(* remove_label_values(..)) is one atomic step, as is the block that holds *)
(* the last_seen mutex in update_sensor_values.  The cleanup task holds    *)
(* the mutex from the lock() of an iteration to the end of retain().       *)
(***************************************************************************)
EXTENDS Integers, Sequences, FiniteSets, TLC

\* ------------------------------------------------------------------------
\* Bounds of the model
\* ------------------------------------------------------------------------
\* Ticks to the second: the resolution of Instant::now() in the model.
TicksPerSecond == 2
\* The clock stops Horizon ticks after the first instant at which an entry
\* can be stale.
Horizon == 4
\* In SpecPair advertisements arrive during the first ScanTicks ticks only.
ScanTicks == 3
\* A due cleanup iteration may lag its deadline by at most MaxDelay ticks.
MaxDelay == 1
\* The scan source delivers at most MaxUpdates decodable advertisements.
MaxUpdates == 3
\* Slots of the event channel.  The program's channel has 1024 slots
\* (tokio::sync::mpsc::channel(1024)); the model gives it ChannelSlots.
ChannelSlots == 2

\* ------------------------------------------------------------------------
\* Program constants
\* ------------------------------------------------------------------------
CLEANUP_PERIOD == 1 * TicksPerSecond
STALE_TIMEOUT == 10 * TicksPerSecond

MaxTime == STALE_TIMEOUT + Horizon

\* Device addresses (BDAddr, rendered by format!("{}", address)).
Addresses == {"A", "B"}

\* The six gauge vectors of RuuviGauges, in the order the code touches them.
Quantities ==
  << "temperature", "humidity", "pressure",
     "battery_potential", "movement_counter", "sequence_number" >>

QuantitySet == {Quantities[i] : i \in 1..Len(Quantities)}

\* Option<T>: None is the empty sequence, Some(x) is <<x>>.
None == << >>
Some(x) == << x >>
IsSome(o) == o /= << >>
Unwrap(o) == o[1]

\* SensorValues: the raw fields one advertisement decodes to.
FullReading ==
  [ temperature       |-> Some(21500),
    humidity          |-> Some(455000),
    pressure          |-> Some(100500),
    battery_potential |-> Some(2900),
    movement_counter  |-> Some(3),
    sequence_number   |-> Some(7) ]

TemperatureOnly ==
  [ temperature       |-> Some(0 - 1250),
    humidity          |-> None,
    pressure          |-> None,
    battery_potential |-> None,
    movement_counter  |-> None,
    sequence_number   |-> None ]

EmptyReading ==
  [ temperature       |-> None,
    humidity          |-> None,
    pressure          |-> None,
    battery_potential |-> None,
    movement_counter  |-> None,
    sequence_number   |-> None ]

Readings == {FullReading, TemperatureOnly, EmptyReading}

\* ------------------------------------------------------------------------
\* Gauge values.  An f64 gauge value is kept as a decimal m * 10^e (the
\* record [m |-> m, e |-> e]); an IntGauge is kept as the integer itself.
\* ------------------------------------------------------------------------
F64From(n) == [m |-> n, e |-> 0]
MulE3(x) == [m |-> x.m, e |-> x.e - 3]
\* Variant: the humidity factor written as 1e-3.
MulE4_AsE3(x) == [m |-> x.m, e |-> x.e - 3]

MulE4(x) == [m |-> x.m, e |-> x.e - 4]

\* The value update_sensor_values sets for quantity q from the raw field.
Convert(q, raw) ==
  CASE q = "temperature"       -> MulE3(F64From(raw))
    [] q = "humidity"          -> MulE4(F64From(raw))
    [] q = "pressure"          -> MulE3(F64From(raw))
    [] q = "battery_potential" -> F64From(raw)
    [] q = "movement_counter"  -> raw
    [] q = "sequence_number"   -> raw

\* Variant: the child is created with v, an existing child is left as it is.
SetLabelValue_KeepFirst(vec, address, v) ==
  [a \in (DOMAIN vec) \cup {address} |->
     IF a \in DOMAIN vec THEN vec[a] ELSE v]

\* GaugeVec::with_label_values(&[address]).set(v) on a vector (a map from
\* label to value): creates the child if it is missing, then stores v.
SetLabelValue(vec, address, v) ==
  [a \in (DOMAIN vec) \cup {address} |-> IF a = address THEN v ELSE vec[a]]

\* GaugeVec::remove_label_values(&[address]); the Err for a missing label is
\* discarded by the callers (let _ = ...).
RemoveLabelValues(vec, address) ==
  [a \in (DOMAIN vec) \ {address} |-> vec[a]]

\* HashMap::insert and the removal retain() does for a rejected entry.
MapInsert(map, k, v) ==
  [a \in (DOMAIN map) \cup {k} |-> IF a = k THEN v ELSE map[a]]
MapRemove(map, k) ==
  [a \in (DOMAIN map) \ {k} |-> map[a]]

EmptyMap == [a \in {} |-> 0]

VARIABLES
  now,          \* the clock, in ticks
  last_seen,    \* RuuviGauges.last_seen: address -> Instant
  gauges,       \* the six GaugeVecs: quantity -> (address -> value)
  upc,          \* consumer task: 0 idle, i in 1..6 about to touch Quantities[i]
  address,      \* update_sensor_values: its address argument
  values,       \* update_sensor_values: its values argument
  spc,          \* cleanup task: "sleep", "retain" (lock held), "remove"
  next_tick,    \* deadline of the interval tick awaited or being served
  sweep_now,    \* cleanup task: its local now
  todo,         \* cleanup task: entries retain() has not visited yet
  stale,        \* cleanup task: the entry retain() is rejecting
  sidx,         \* cleanup task: next removal of remove_sensor_values
  lastUpdate,   \* history: address -> tick of its latest update (-1: never)
  lastValues,   \* history: address -> the reading of its latest update
  stalled,      \* history: time passed while the latest update of a ran
  swept,        \* history: the sweep removed something of a since then
  gapped,       \* history: a was silent for STALE_TIMEOUT at some time
  evicted,      \* history: the sweep has evicted a at some time
  born,         \* history: tick of the update that created a's entry (-1)
  dropped,      \* history: the entries the running iteration has rejected
  updates       \* number of update_sensor_values calls so far

\* The scrape server (src/metrics_server.rs).
VARIABLES
  gorder,       \* the order in which the registry iterates its collectors
  gpc,          \* gather(): 0 when idle, else the next position in gorder
  snapshot      \* gather(): the metric families collected so far, by vector

scraper == << gorder, gpc, snapshot >>

\* The event pipeline (src/ruuvi_listener.rs).
VARIABLES
  peripheral,   \* the adapter's peripherals: address -> manufacturer data
  channel,      \* events sent by the on_event callback, not yet received
  handed,       \* history: the events handed to the on_event callback
  applied,      \* history: the events that led to update_sensor_values
  advertised,   \* history: address -> number of its latest advertisement
  reported      \* history: address -> quantities it has reported a value for

arrivals == << peripheral, channel, handed, applied, advertised, reported >>

\* A second caller of update_sensor_values.
VARIABLES
  upc2,         \* as upc, for the second caller
  address2,     \* as address
  values2       \* as values

second == << upc2, address2, values2 >>

\* The watchdog version of the registry (src/main.rs).
VARIABLES
  watchdogs,    \* the watchdogs map: address -> end of the address's watchdog
  map_holder,   \* holder of the watchdogs mutex: "free", "update", "evict"
  wd_holder,    \* address -> holder of its watchdog's mutex: "free", "wait", "pet"
  wpc,          \* update_sensor_values: "idle", "pet", "queued", "store", "set"
  epc,          \* address -> its eviction task: "none", "poll", "asleep",
                \*   "backoff", "expired", "remove"
  wake,         \* address -> end of the sleep of wait()
  ridx          \* remove_sensor_values: the next removal of the chain

dogs == << watchdogs, map_holder, wd_holder, wpc, epc, wake, ridx >>

\* State of the parts that the registry's own steps leave alone.
offstage == << scraper, second, dogs >>

vars ==
  << now, last_seen, gauges, upc, address, values, spc, next_tick, sweep_now,
     todo, stale, sidx, lastUpdate, lastValues, stalled, swept, gapped,
     evicted, born, dropped, updates, offstage, arrivals >>

history ==
  << lastUpdate, lastValues, stalled, swept, gapped, evicted, born, dropped,
     updates >>
updater == << upc, address, values >>
sweeper == << spc, next_tick, sweep_now, todo, stale, sidx >>

\* RuuviGauges::create_and_register: empty vectors, empty last_seen, the
\* cleanup task spawned with an interval whose first tick is immediate.
Init ==
  /\ now = 0
  /\ last_seen = EmptyMap
  /\ gauges = [q \in QuantitySet |-> EmptyMap]
  /\ upc = 0
  /\ address = "A"
  /\ values = EmptyReading
  /\ spc = "sleep"
  /\ next_tick = 0
  /\ sweep_now = 0
  /\ todo = {}
  /\ stale = "A"
  /\ sidx = 0
  /\ lastUpdate = [a \in Addresses |-> 0 - 1]
  /\ lastValues = [a \in Addresses |-> EmptyReading]
  /\ stalled = [a \in Addresses |-> FALSE]
  /\ swept = [a \in Addresses |-> FALSE]
  /\ gapped = [a \in Addresses |-> FALSE]
  /\ evicted = [a \in Addresses |-> FALSE]
  /\ born = [a \in Addresses |-> 0 - 1]
  /\ dropped = {}
  /\ updates = 0
  /\ gorder = Quantities
  /\ gpc = 0
  /\ snapshot = EmptyMap
  /\ peripheral = EmptyMap
  /\ channel = << >>
  /\ handed = << >>
  /\ applied = << >>
  /\ advertised = [a \in Addresses |-> 0]
  /\ reported = [a \in Addresses |-> {}]
  /\ upc2 = 0
  /\ address2 = "A"
  /\ values2 = EmptyReading
  /\ watchdogs = EmptyMap
  /\ map_holder = "free"
  /\ wd_holder = [a \in Addresses |-> "free"]
  /\ wpc = "idle"
  /\ epc = [a \in Addresses |-> "none"]
  /\ wake = [a \in Addresses |-> 0]
  /\ ridx = 0

\* ------------------------------------------------------------------------
\* update_sensor_values, run by the single task that drains the channel
\* ------------------------------------------------------------------------
\* Lines 119-125: lock last_seen, insert (address, Instant::now()), unlock.
\* The mutex is free only while the cleanup task is not inside an iteration.
\* Variant: entry(address).or_insert(now), which keeps an existing timestamp.
InsertLastSeen_Ahead(map, a, t) == MapInsert(map, a, t + 1)

InsertLastSeen_KeepOld(map, a, t) ==
  IF a \in DOMAIN map THEN map ELSE MapInsert(map, a, t)

InsertLastSeen(map, a, t) == MapInsert(map, a, t)

UpdateLastSeen(a, v) ==
  /\ upc = 0
  /\ spc = "sleep"
  /\ updates < MaxUpdates
  /\ updates' = updates + 1
  /\ last_seen' = InsertLastSeen(last_seen, a, now)
  /\ upc' = 1
  /\ address' = a
  /\ values' = v
  /\ lastUpdate' = [lastUpdate EXCEPT ![a] = now]
  /\ lastValues' = [lastValues EXCEPT ![a] = v]
  /\ stalled' = [stalled EXCEPT ![a] = FALSE]
  /\ swept' = [swept EXCEPT ![a] = FALSE]
  /\ born' = IF a \in DOMAIN last_seen THEN born ELSE [born EXCEPT ![a] = now]
  /\ UNCHANGED << now, gauges, sweeper, gapped, evicted, dropped, offstage >>

\* Lines 127-174, one quantity: set the converted value if the reading
\* carries the field, else remove the label.
\* Variant: a missing field leaves the old entry (as in src/main.rs).
UpdateVec_NoRemove(vec, q, a, v) ==
  IF IsSome(v[q])
    THEN SetLabelValue(vec, a, Convert(q, Unwrap(v[q])))
    ELSE vec

UpdateVec(vec, q, a, v) ==
  IF IsSome(v[q])
    THEN SetLabelValue(vec, a, Convert(q, Unwrap(v[q])))
    ELSE RemoveLabelValues(vec, a)

UpdateGauge ==
  /\ upc \in 1..Len(Quantities)
  /\ LET q == Quantities[upc] IN
       gauges' = [gauges EXCEPT ![q] = UpdateVec(gauges[q], q, address, values)]
  /\ upc' = IF upc = Len(Quantities) THEN 0 ELSE upc + 1
  /\ UNCHANGED << now, last_seen, address, values, sweeper, history,
                  offstage, arrivals >>

\* ------------------------------------------------------------------------
\* The cleanup task (create_and_register, lines 94-112)
\* ------------------------------------------------------------------------
\* Lines 99-101: the tick is due, the lock is taken, now is read.
SweepBegin ==
  /\ spc = "sleep"
  /\ now >= next_tick
  /\ spc' = "retain"
  /\ sweep_now' = now
  /\ todo' = DOMAIN last_seen
  /\ dropped' = {}
  /\ UNCHANGED << now, last_seen, gauges, updater, next_tick, stale, sidx,
                  lastUpdate, lastValues, stalled, swept, gapped, evicted,
                  born, updates, offstage,
                  arrivals >>

\* Variants of the closure's test: the boundary taken as fresh, the period
\* taken for the timeout, the test inverted.
IsFresh_Inclusive(t, value) == t - value <= STALE_TIMEOUT
IsFresh_Period(t, value) == t - value < CLEANUP_PERIOD
IsFresh_Inverted(t, value) == ~(t - value < STALE_TIMEOUT)

\* Line 103: the closure's test.
IsFresh(t, value) == t - value < STALE_TIMEOUT

\* Lines 102-105: retain() visits an entry (in the map's order, which is
\* arbitrary); a fresh one is kept, a stale one goes to remove_sensor_values.
SweepVisit(a) ==
  /\ spc = "retain"
  /\ a \in todo
  /\ IF IsFresh(sweep_now, last_seen[a])
       THEN /\ todo' = todo \ {a}
            /\ UNCHANGED << spc, stale, sidx >>
       ELSE /\ spc' = "remove"
            /\ stale' = a
            /\ sidx' = 1
            /\ UNCHANGED todo
  /\ UNCHANGED << now, last_seen, gauges, updater, next_tick, sweep_now,
                  history, offstage,
                  arrivals >>

\* remove_sensor_values (lines 178-187), one removal; after the sixth the
\* closure returns false and retain() drops the entry (line 107).
\* Variant: the whole vector is reset.
RemoveFrom_All(vec, a) == [x \in {} |-> 0]

RemoveFrom(vec, a) == RemoveLabelValues(vec, a)

\* Variant: the rejected entry stays in the table.
DropEntry_Keep(map, a) == map

DropEntry(map, a) == MapRemove(map, a)

SweepRemove ==
  /\ spc = "remove"
  /\ LET q == Quantities[sidx] IN
       gauges' = [gauges EXCEPT ![q] = RemoveFrom(gauges[q], stale)]
  /\ swept' = [swept EXCEPT ![stale] = TRUE]
  /\ IF sidx = Len(Quantities)
       THEN /\ last_seen' = DropEntry(last_seen, stale)
            /\ todo' = todo \ {stale}
            /\ spc' = "retain"
            /\ sidx' = 0
            /\ evicted' = [evicted EXCEPT ![stale] = TRUE]
            /\ born' = [born EXCEPT ![stale] = 0 - 1]
            /\ dropped' = dropped \cup {stale}
       ELSE /\ sidx' = sidx + 1
            /\ UNCHANGED << last_seen, todo, spc, evicted, born, dropped >>
  /\ UNCHANGED << now, updater, next_tick, sweep_now, stale, lastUpdate,
                  lastValues, stalled, gapped, updates, offstage,
                  arrivals >>

\* Lines 109-110 and 98-99: retain() is done, the guard and the local now go
\* out of scope, the loop awaits the next tick of the interval.
SweepEnd ==
  /\ spc = "retain"
  /\ todo = {}
  /\ spc' = "sleep"
  /\ next_tick' = next_tick + CLEANUP_PERIOD
  /\ sweep_now' = 0
  /\ dropped' = {}
  /\ UNCHANGED << now, last_seen, gauges, updater, todo, stale, sidx,
                  lastUpdate, lastValues, stalled, swept, gapped, evicted,
                  born, updates, offstage,
                  arrivals >>

\* ------------------------------------------------------------------------
\* Time
\* ------------------------------------------------------------------------
\* One tick passes.  The cleanup iteration due at next_tick has finished
\* before the clock is more than delay ticks past its deadline.
Tick(delay) ==
  /\ now < MaxTime
  /\ now + 1 <= next_tick + delay
  /\ now' = now + 1
  /\ stalled' = [a \in Addresses |->
                   stalled[a] \/ (upc /= 0 /\ address = a)]
  /\ gapped' = [a \in Addresses |->
                  \/ gapped[a]
                  \/ /\ lastUpdate[a] >= 0
                     /\ now + 1 - lastUpdate[a] >= STALE_TIMEOUT]
  /\ UNCHANGED << last_seen, gauges, updater, sweeper, lastUpdate, lastValues,
                  swept, evicted, born, dropped, updates, offstage,
                  arrivals >>

\* One device in range.
Next ==
  \/ \E v \in Readings : UpdateLastSeen("A", v) /\ UNCHANGED arrivals
  \/ UpdateGauge
  \/ SweepBegin
  \/ \E a \in Addresses : SweepVisit(a)
  \/ SweepRemove
  \/ SweepEnd
  \/ Tick(MaxDelay)

Spec == Init /\ [][Next]_vars

\* The same program with the cleanup task scheduled promptly: each iteration
\* runs, and ends, at the instant of its interval tick.
NextPrompt ==
  \/ \E v \in Readings : UpdateLastSeen("A", v) /\ UNCHANGED arrivals
  \/ UpdateGauge
  \/ SweepBegin
  \/ \E a \in Addresses : SweepVisit(a)
  \/ SweepRemove
  \/ SweepEnd
  \/ Tick(0)

SpecPrompt == Init /\ [][NextPrompt]_vars

\* Two devices in range, both advertising during the first ScanTicks ticks;
\* the cleanup task scheduled promptly.
NextPair ==
  \/ \E a \in Addresses, v \in Readings :
        now < ScanTicks /\ UpdateLastSeen(a, v) /\ UNCHANGED arrivals
  \/ UpdateGauge
  \/ SweepBegin
  \/ \E a \in Addresses : SweepVisit(a)
  \/ SweepRemove
  \/ SweepEnd
  \/ Tick(0)

SpecPair == Init /\ [][NextPair]_vars

-----------------------------------------------------------------------------
\* The scrape server, src/metrics_server.rs.  A GET /metrics request calls
\* registry.gather(), which collects the registered vectors one after the
\* other, each under that vector's own lock only.  The registry keeps its
\* collectors in a hash map: the order of collection is fixed when the
\* vectors are registered, and differs from one run of the program to another.

Reverse(seq) == [i \in 1..Len(seq) |-> seq[Len(seq) + 1 - i]]

\* The orders of collection considered.
GatherOrders == {Quantities, Reverse(Quantities)}

\* The state after construction, for each order of collection.
InitScrape ==
  /\ gorder \in GatherOrders
  /\ now = 0
  /\ last_seen = EmptyMap
  /\ gauges = [q \in QuantitySet |-> EmptyMap]
  /\ upc = 0
  /\ address = "A"
  /\ values = EmptyReading
  /\ spc = "sleep"
  /\ next_tick = 0
  /\ sweep_now = 0
  /\ todo = {}
  /\ stale = "A"
  /\ sidx = 0
  /\ lastUpdate = [a \in Addresses |-> 0 - 1]
  /\ lastValues = [a \in Addresses |-> EmptyReading]
  /\ stalled = [a \in Addresses |-> FALSE]
  /\ swept = [a \in Addresses |-> FALSE]
  /\ gapped = [a \in Addresses |-> FALSE]
  /\ evicted = [a \in Addresses |-> FALSE]
  /\ born = [a \in Addresses |-> 0 - 1]
  /\ dropped = {}
  /\ updates = 0
  /\ gpc = 0
  /\ snapshot = EmptyMap
  /\ peripheral = EmptyMap
  /\ channel = << >>
  /\ handed = << >>
  /\ applied = << >>
  /\ advertised = [a \in Addresses |-> 0]
  /\ reported = [a \in Addresses |-> {}]
  /\ upc2 = 0
  /\ address2 = "A"
  /\ values2 = EmptyReading
  /\ watchdogs = EmptyMap
  /\ map_holder = "free"
  /\ wd_holder = [a \in Addresses |-> "free"]
  /\ wpc = "idle"
  /\ epc = [a \in Addresses |-> "none"]
  /\ wake = [a \in Addresses |-> 0]
  /\ ridx = 0

\* The metric family that collecting a vector yields: a copy of its children.
Collect(vec) == vec

Collected_Drained(vec) == [x \in {} |-> 0]

\* The vector after it has been collected.
Collected(vec) == vec

\* metrics_server.rs lines 19-23: the handler of GET /metrics enters gather().
GatherBegin ==
  /\ gpc = 0
  /\ gpc' = 1
  /\ snapshot' = [q \in QuantitySet |-> EmptyMap]
  /\ UNCHANGED << now, last_seen, gauges, gorder, updater, sweeper, history,
                  second, dogs, arrivals >>

\* gather() collects the next vector.
GatherCollect ==
  /\ gpc \in 1..Len(gorder)
  /\ gpc' = gpc + 1
  /\ snapshot' = [snapshot EXCEPT ![gorder[gpc]] = Collect(gauges[gorder[gpc]])]
  /\ gauges' = [gauges EXCEPT ![gorder[gpc]] = Collected(gauges[gorder[gpc]])]
  /\ UNCHANGED << now, last_seen, gorder, updater, sweeper, history,
                  second, dogs, arrivals >>

\* metrics_server.rs lines 24-25: the families are encoded and sent.
GatherEnd ==
  /\ gpc = Len(gorder) + 1
  /\ gpc' = 0
  /\ snapshot' = EmptyMap
  /\ UNCHANGED << now, last_seen, gauges, gorder, updater, sweeper, history,
                  second, dogs, arrivals >>

\* One device advertising during the first ScanTicks ticks, the cleanup task
\* scheduled promptly, and a client scraping at any time; a scrape is served
\* within the tick in which it was requested.
NextScrape ==
  \/ \E v \in Readings :
        now < ScanTicks /\ UpdateLastSeen("A", v) /\ UNCHANGED arrivals
  \/ UpdateGauge
  \/ SweepBegin
  \/ \E a \in Addresses : SweepVisit(a)
  \/ SweepRemove
  \/ SweepEnd
  \/ gpc = 0 /\ Tick(0)
  \/ GatherBegin
  \/ GatherCollect
  \/ GatherEnd

SpecScrape == InitScrape /\ [][NextScrape]_vars

-----------------------------------------------------------------------------
\* The event pipeline, src/ruuvi_listener.rs.  The adapter keeps the latest
\* manufacturer data of every peripheral and hands an event that carries the
\* address only to the on_event callback; the callback sends the event into
\* the channel with try_send; one task receives the events, looks the
\* manufacturer data up in the adapter, decodes it and calls
\* update_sensor_values.

\* Manufacturer data: a manufacturer id followed by a payload.
ManufacturerData ==
  {[id |-> "ruuvi", payload |-> r] : r \in Readings}
    \cup {[id |-> "other", payload |-> EmptyReading]}

\* ruuvi_listener.rs lines 9-16.
ParseManufacturerData(data) ==
  IF data.id = "ruuvi" THEN Some(data.payload) ELSE None

\* ruuvi_listener.rs lines 18-29: the data is read from the adapter when the
\* event is handled.
OnEventWithAddress(per, a) ==
  IF a \in DOMAIN per /\ IsSome(ParseManufacturerData(per[a]))
    THEN Some([address |-> a, values |-> Unwrap(ParseManufacturerData(per[a]))])
    ELSE None

\* ruuvi_listener.rs lines 31-42.
ParseEvent(per, event) ==
  IF event.kind \in {"DeviceDiscovered", "DeviceUpdated"}
    THEN OnEventWithAddress(per, event.address)
    ELSE None

\* ruuvi_listener.rs lines 60-62: try_send fails on a full channel, and the
\* callback then prints a message and returns.
TrySend(ch, event) ==
  IF Len(ch) < ChannelSlots THEN Append(ch, event) ELSE ch

\* ruuvi_listener.rs lines 59-63: the callback, handed one event.
OnEvent(event, per) ==
  /\ channel' = TrySend(channel, event)
  /\ handed' = Append(handed, [kind |-> event.kind, address |-> event.address,
                               decodes |-> IsSome(ParseEvent(per, event))])

\* The adapter hears an advertisement of a: it stores the manufacturer data
\* and emits DeviceDiscovered for a new peripheral, DeviceUpdated otherwise.
Advertise(a, data) ==
  /\ Len(handed) < MaxUpdates
  /\ peripheral' = MapInsert(peripheral, a, data)
  /\ advertised' = [advertised EXCEPT ![a] = Len(handed) + 1]
  /\ OnEvent([kind |-> IF a \in DOMAIN peripheral THEN "DeviceUpdated"
                                                  ELSE "DeviceDiscovered",
              address |-> a, id |-> Len(handed) + 1], peripheral')
  /\ UNCHANGED << now, last_seen, gauges, updater, sweeper, history, offstage,
                  applied, reported >>

\* The adapter emits an event that carries no advertisement.
Lose(a) ==
  /\ Len(handed) < MaxUpdates
  /\ a \in DOMAIN peripheral
  /\ OnEvent([kind |-> "DeviceLost", address |-> a, id |-> Len(handed) + 1],
             peripheral)
  /\ UNCHANGED << now, last_seen, gauges, updater, sweeper, history, offstage,
                  peripheral, advertised, applied, reported >>

Front_Newest(ch) == ch[Len(ch)]

\* rx.recv(): the oldest event in the channel.
Front(ch) == Head(ch)

\* ruuvi_listener.rs lines 67-75: the consumer receives one event, and calls
\* update_sensor_values when the event decodes.
Receive ==
  /\ upc = 0
  /\ channel /= << >>
  /\ channel' = Tail(channel)
  /\ LET event == Front(channel)
         parsed == ParseEvent(peripheral, event)
     IN  IF IsSome(parsed)
           THEN /\ UpdateLastSeen(Unwrap(parsed).address, Unwrap(parsed).values)
                /\ applied' = Append(applied,
                                 [id |-> event.id, address |-> event.address,
                                  data |-> advertised[event.address]])
                /\ reported' =
                     [reported EXCEPT ![event.address] =
                        @ \cup {q \in QuantitySet :
                                  IsSome(Unwrap(parsed).values[q])}]
           ELSE UNCHANGED << now, last_seen, gauges, updater, sweeper, history,
                             offstage, applied, reported >>
  /\ UNCHANGED << peripheral, handed, advertised >>

\* Two devices in range; the adapter hands at most MaxUpdates events over.
NextPipeline ==
  \/ \E a \in Addresses, data \in ManufacturerData : Advertise(a, data)
  \/ \E a \in Addresses : Lose(a)
  \/ Receive
  \/ UpdateGauge

SpecPipeline == Init /\ [][NextPipeline]_vars

-----------------------------------------------------------------------------
\* A second caller of update_sensor_values (RuuviGauges is Clone and the
\* method takes &self), running the same code as the first.

\* Lines 122-125, second caller.
SecondLastSeen(a, v) ==
  /\ upc2 = 0
  /\ spc = "sleep"
  /\ updates < MaxUpdates
  /\ updates' = updates + 1
  /\ last_seen' = InsertLastSeen(last_seen, a, now)
  /\ upc2' = 1
  /\ address2' = a
  /\ values2' = v
  /\ lastUpdate' = [lastUpdate EXCEPT ![a] = now]
  /\ lastValues' = [lastValues EXCEPT ![a] = v]
  /\ stalled' = [stalled EXCEPT ![a] = FALSE]
  /\ swept' = [swept EXCEPT ![a] = FALSE]
  /\ born' = IF a \in DOMAIN last_seen THEN born ELSE [born EXCEPT ![a] = now]
  /\ UNCHANGED << now, gauges, updater, sweeper, gapped, evicted, dropped,
                  scraper, dogs, arrivals >>

\* Lines 127-174, one quantity, second caller.
SecondGauge ==
  /\ upc2 \in 1..Len(Quantities)
  /\ LET q == Quantities[upc2] IN
       gauges' = [gauges EXCEPT
                    ![q] = UpdateVec(gauges[q], q, address2, values2)]
  /\ upc2' = IF upc2 = Len(Quantities) THEN 0 ELSE upc2 + 1
  /\ UNCHANGED << now, last_seen, address2, values2, updater, sweeper, history,
                  scraper, dogs, arrivals >>

\* Two callers updating the two devices.
NextCallers ==
  \/ \E a \in Addresses, v \in Readings :
        UpdateLastSeen(a, v) /\ UNCHANGED arrivals
  \/ UpdateGauge
  \/ \E a \in Addresses, v \in Readings : SecondLastSeen(a, v)
  \/ SecondGauge

SpecCallers == Init /\ [][NextCallers]_vars

-----------------------------------------------------------------------------
\* The watchdog version, src/main.rs: no last_seen table and no cleanup task.
\* update_sensor_values keeps one Watchdog per address in the watchdogs map
\* and spawns, with each new watchdog, a task that waits for the watchdog to
\* expire and then removes the watchdog and the address's entries.

\* main.rs line 117: Duration::from_secs(5).
WATCHDOG_DURATION == 5 * TicksPerSecond

WatchdogMaxTime == WATCHDOG_DURATION + Horizon

\* A reading whose temperature is not available.
NoTemperature ==
  [temperature |-> None, humidity |-> Some(455000), pressure |-> Some(100500),
   battery_potential |-> Some(2900), movement_counter |-> Some(3),
   sequence_number |-> Some(7)]

WatchdogReadings == Readings \cup {NoTemperature}

\* main.rs lines 108-136: the watchdogs mutex is taken (and kept until the
\* function returns); an address without a watchdog gets a new one, whose
\* eviction task is spawned.
WatchdogBegin(a, v) ==
  /\ wpc = "idle"
  /\ map_holder = "free"
  /\ updates < MaxUpdates
  /\ updates' = updates + 1
  /\ map_holder' = "update"
  /\ address' = a
  /\ values' = v
  /\ wpc' = "pet"
  /\ IF a \in DOMAIN watchdogs
       THEN UNCHANGED << watchdogs, epc >>
       ELSE /\ watchdogs' = MapInsert(watchdogs, a, now + WATCHDOG_DURATION)
            /\ epc' = [epc EXCEPT ![a] = "poll"]
  /\ stalled' = [stalled EXCEPT ![a] = FALSE]
  /\ UNCHANGED << now, last_seen, gauges, upc, sweeper, lastUpdate, lastValues,
                  swept, gapped, evicted, born, dropped, scraper,
                  second, arrivals, wd_holder, wake, ridx >>

\* main.rs lines 75-76 (called from line 137): pet() asks for the watchdog's
\* mutex, and queues for it when wait() holds it.
PetLock ==
  /\ wpc = "pet"
  /\ IF wd_holder[address] = "free"
       THEN /\ wd_holder' = [wd_holder EXCEPT ![address] = "pet"]
            /\ wpc' = "store"
       ELSE /\ wpc' = "queued"
            /\ UNCHANGED wd_holder
  /\ UNCHANGED << now, last_seen, gauges, updater, sweeper, history, scraper,
                  second, arrivals, watchdogs, map_holder, epc, wake, ridx >>

\* main.rs lines 77-78: the end is moved and the watchdog's mutex released.
PetStore ==
  /\ wpc = "store"
  /\ watchdogs' = [watchdogs EXCEPT ![address] = now + WATCHDOG_DURATION]
  /\ wd_holder' = [wd_holder EXCEPT ![address] = "free"]
  /\ wpc' = "set"
  /\ upc' = 1
  /\ lastUpdate' = [lastUpdate EXCEPT ![address] = now]
  /\ lastValues' = [lastValues EXCEPT ![address] = values]
  /\ UNCHANGED << now, last_seen, gauges, address, values, sweeper, stalled,
                  swept, gapped, evicted, born, dropped, updates, scraper,
                  second, arrivals, map_holder, epc, wake, ridx >>

\* main.rs lines 139-169, one quantity: the value is set if the reading
\* carries the field; a missing field leaves the vector alone.
SetIfSome(vec, q, a, v) ==
  IF IsSome(v[q])
    THEN SetLabelValue(vec, a, Convert(q, Unwrap(v[q])))
    ELSE vec

\* One quantity is written; after the sixth the function returns and the
\* watchdogs mutex is released.
WatchdogSet ==
  /\ wpc = "set"
  /\ LET q == Quantities[upc] IN
       gauges' = [gauges EXCEPT ![q] = SetIfSome(gauges[q], q, address, values)]
  /\ IF upc = Len(Quantities)
       THEN /\ upc' = 0
            /\ wpc' = "idle"
            /\ map_holder' = "free"
       ELSE /\ upc' = upc + 1
            /\ UNCHANGED << wpc, map_holder >>
  /\ UNCHANGED << now, last_seen, address, values, sweeper, history, scraper,
                  second, arrivals, watchdogs, wd_holder, epc, wake, ridx >>

\* main.rs lines 82-90: wait() tries the watchdog's mutex.  With the mutex it
\* returns if the end has come, and else sleeps until the end, keeping the
\* mutex; without it, it sleeps for 100 ms, which is less than a tick.
WaitPoll(a) ==
  /\ epc[a] = "poll"
  /\ IF wd_holder[a] = "free"
       THEN IF now >= watchdogs[a]
              THEN /\ epc' = [epc EXCEPT ![a] = "expired"]
                   /\ UNCHANGED << wd_holder, wake >>
              ELSE /\ epc' = [epc EXCEPT ![a] = "asleep"]
                   /\ wd_holder' = [wd_holder EXCEPT ![a] = "wait"]
                   /\ wake' = [wake EXCEPT ![a] = watchdogs[a]]
       ELSE /\ epc' = [epc EXCEPT ![a] = "backoff"]
            /\ UNCHANGED << wd_holder, wake >>
  /\ UNCHANGED << now, last_seen, gauges, updater, sweeper, history, scraper,
                  second, arrivals, watchdogs, map_holder, wpc, ridx >>

\* The holder of a watchdog's mutex after wait() has dropped its guard.  The
\* mutex is tokio's, which grants in the order of the lock() calls: the
\* release passes the mutex to a pet() that is queued for it, so that the
\* try_lock of wait()'s next round fails.
\* Variant: the release leaves the mutex free for whoever asks next.
Granted_Barging(queued) == "free"

Granted(queued) == IF queued THEN "pet" ELSE "free"

\* main.rs line 87: the sleep is over and the guard goes out of scope; a
\* pet() queued for the mutex gets it.
WaitWake(a) ==
  /\ epc[a] = "asleep"
  /\ now >= wake[a]
  /\ epc' = [epc EXCEPT ![a] = "poll"]
  /\ LET holder == Granted(wpc = "queued" /\ address = a) IN
       /\ wd_holder' = [wd_holder EXCEPT ![a] = holder]
       /\ wpc' = IF holder = "pet" THEN "store" ELSE wpc
  /\ UNCHANGED << now, last_seen, gauges, updater, sweeper, history, scraper,
                  second, arrivals, watchdogs, map_holder, wake, ridx >>

\* main.rs line 89: the 100 ms are over.
WaitRetry(a) ==
  /\ epc[a] = "backoff"
  /\ epc' = [epc EXCEPT ![a] = "poll"]
  /\ UNCHANGED << now, last_seen, gauges, updater, sweeper, history, scraper,
                  second, arrivals, watchdogs, map_holder, wd_holder, wpc,
                  wake, ridx >>

\* main.rs lines 126-128: wait() has returned; the task takes the watchdogs
\* mutex and removes the address's watchdog.
EvictLock(a) ==
  /\ epc[a] = "expired"
  /\ map_holder = "free"
  /\ map_holder' = "evict"
  /\ watchdogs' = MapRemove(watchdogs, a)
  /\ epc' = [epc EXCEPT ![a] = "remove"]
  /\ ridx' = 1
  /\ UNCHANGED << now, last_seen, gauges, updater, sweeper, history, scraper,
                  second, arrivals, wd_holder, wpc, wake >>

\* main.rs lines 172-187, one link of the and_then chain: a removal that
\* succeeds leads to the next one; remove_label_values on a vector that lacks
\* the address returns Err, which ends the chain.  At the end of the chain
\* the task finishes and the watchdogs mutex is released.
EvictRemove(a) ==
  /\ epc[a] = "remove"
  /\ LET q == Quantities[ridx]
         ok == a \in DOMAIN gauges[q]
     IN  /\ gauges' = IF ok
                        THEN [gauges EXCEPT ![q] = RemoveLabelValues(gauges[q], a)]
                        ELSE gauges
         /\ IF ok /\ ridx < Len(Quantities)
              THEN /\ ridx' = ridx + 1
                   /\ UNCHANGED << epc, map_holder >>
              ELSE /\ ridx' = 0
                   /\ epc' = [epc EXCEPT ![a] = "none"]
                   /\ map_holder' = "free"
  /\ UNCHANGED << now, last_seen, updater, sweeper, history, scraper, second,
                  arrivals, watchdogs, wd_holder, wpc, wake >>

\* One tick passes.
Elapse ==
  /\ now < WatchdogMaxTime
  /\ now' = now + 1
  /\ stalled' = [a \in Addresses |->
                   stalled[a] \/ (wpc /= "idle" /\ address = a)]
  /\ UNCHANGED << last_seen, gauges, updater, sweeper, lastUpdate, lastValues,
                  swept, gapped, evicted, born, dropped, updates, offstage,
                  arrivals >>

\* One device in range of the watchdog version.  An update runs within one
\* tick, but for the time it is queued for a watchdog's mutex.
NextWatchdog ==
  \/ \E v \in WatchdogReadings : WatchdogBegin("A", v)
  \/ PetLock
  \/ PetStore
  \/ WatchdogSet
  \/ \E a \in Addresses : WaitPoll(a)
  \/ \E a \in Addresses : WaitWake(a)
  \/ \E a \in Addresses : WaitRetry(a)
  \/ \E a \in Addresses : EvictLock(a)
  \/ \E a \in Addresses : EvictRemove(a)
  \/ wpc \in {"idle", "queued"} /\ Elapse

SpecWatchdog == Init /\ [][NextWatchdog]_vars

-----------------------------------------------------------------------------
\* The registry with a record of what each device has reported.

\* update_sensor_values(a, v), lines 122-125, with the quantities of the
\* reading noted.
Report(a, v) ==
  /\ UpdateLastSeen(a, v)
  /\ reported' = [reported EXCEPT
                    ![a] = @ \cup {q \in QuantitySet : IsSome(v[q])}]
  /\ UNCHANGED << peripheral, channel, handed, applied, advertised >>

\* One device in range, the cleanup task scheduled promptly.
NextReported ==
  \/ \E v \in Readings : Report("A", v)
  \/ UpdateGauge
  \/ SweepBegin
  \/ \E a \in Addresses : SweepVisit(a)
  \/ SweepRemove
  \/ SweepEnd
  \/ Tick(0)

SpecReported == Init /\ [][NextReported]_vars

\* ------------------------------------------------------------------------
\* Vocabulary of the properties
\* ------------------------------------------------------------------------
Tracked(a) == a \in DOMAIN last_seen
HasEntry(q, a) == a \in DOMAIN gauges[q]
NoEntries(a) == \A q \in QuantitySet : ~HasEntry(q, a)
Updating(a) == upc /= 0 /\ address = a
Known(a) == lastUpdate[a] >= 0
Silence(a) == now - lastUpdate[a]
AllWritten(a) ==
  \A q \in QuantitySet : IsSome(lastValues[a][q]) => HasEntry(q, a)

\* ------------------------------------------------------------------------
\* C1  Staleness eviction, cleanup task scheduled promptly.  When the latest
\* update of a ran within one instant and none followed: while less than
\* STALE_TIMEOUT has passed a is in last_seen with every entry the update
\* wrote; once STALE_TIMEOUT + CLEANUP_PERIOD has passed a is in neither
\* last_seen nor any of the six vectors.
\* ------------------------------------------------------------------------
C1_StalenessEviction ==
  \A a \in Addresses :
    (Known(a) /\ ~Updating(a) /\ ~stalled[a]) =>
      /\ Silence(a) < STALE_TIMEOUT => Tracked(a) /\ AllWritten(a)
      /\ Silence(a) >= STALE_TIMEOUT + CLEANUP_PERIOD =>
           ~Tracked(a) /\ NoEntries(a)

\* An update of A with all six fields ran at an odd tick, so the sweep that
\* found it stale ran more than STALE_TIMEOUT after it; the device is gone.
C1_Witness ==
  /\ Known("A") /\ ~Updating("A") /\ ~stalled["A"]
  /\ lastValues["A"] = FullReading
  /\ lastUpdate["A"] % CLEANUP_PERIOD /= 0
  /\ Silence("A") = STALE_TIMEOUT + CLEANUP_PERIOD
  /\ evicted["A"] /\ ~Tracked("A") /\ NoEntries("A")

\* ------------------------------------------------------------------------
\* C2  As claimed: an iteration that reads last_seen[a] after an update of a
\* has completed never rejects a.
\* ------------------------------------------------------------------------
C2_NeverEvictsAfterUpdate ==
  [][\A a \in Addresses :
       (spc = "retain" /\ a \in todo /\ Known(a) /\ ~Updating(a)) =>
         ~(spc' = "remove" /\ stale' = a)]_vars

\* C2, amended.  While the cleanup task holds the lock, the timestamp it
\* reads for a is the one written by the latest update of a, and it is
\* inside remove_sensor_values for a only if its now is at least
\* STALE_TIMEOUT after that timestamp: an update younger than that loses
\* neither its last_seen entry nor a gauge entry to the iteration.
C2_SweepDecidesOnLatestUpdate ==
  \A a \in Addresses :
    /\ Tracked(a) => last_seen[a] = lastUpdate[a]
    /\ (spc = "remove" /\ stale = a) =>
         Tracked(a) /\ sweep_now - lastUpdate[a] >= STALE_TIMEOUT
    /\ (spc /= "sleep" /\ Known(a) /\ ~(a \in dropped)
          /\ sweep_now - lastUpdate[a] < STALE_TIMEOUT) => Tracked(a)

\* A second update of A has completed, an iteration that began after it has
\* visited A and kept it, with every entry of the update in place.
C2_Witness ==
  /\ spc = "retain" /\ todo = {}
  /\ updates = 2 /\ upc = 0
  /\ lastUpdate["A"] > born["A"]
  /\ sweep_now >= lastUpdate["A"]
  /\ lastValues["A"] = FullReading
  /\ Tracked("A") /\ AllWritten("A")

\* ------------------------------------------------------------------------
\* C3  No false eviction under load: a device whose updates have never been
\* STALE_TIMEOUT or more apart (nor the latest that long ago) has never
\* lost its last_seen entry or a gauge entry to the cleanup task.
\* ------------------------------------------------------------------------
C3_NoFalseEviction ==
  \A a \in Addresses : (evicted[a] \/ swept[a]) => gapped[a]

\* A has been updating for longer than STALE_TIMEOUT + CLEANUP_PERIOD with
\* gaps below the timeout; an iteration runs while its third update is
\* still writing gauges, and A is tracked.
C3_Witness ==
  /\ updates = 3 /\ ~gapped["A"]
  /\ now - born["A"] > STALE_TIMEOUT + CLEANUP_PERIOD
  /\ Updating("A") /\ spc = "retain" /\ todo = {}
  /\ Tracked("A") /\ ~evicted["A"]

\* ------------------------------------------------------------------------
\* C4  Refresh resets the clock: a leaves last_seen only in a step of the
\* cleanup task inside remove_sensor_values for a, whose now is at least
\* STALE_TIMEOUT after the timestamp of the latest update of a.
\* ------------------------------------------------------------------------
C4_RefreshResetsClock ==
  [][\A a \in Addresses :
       (Tracked(a) /\ ~(a \in DOMAIN last_seen')) =>
         /\ spc = "remove" /\ stale = a
         /\ sweep_now - lastUpdate[a] >= STALE_TIMEOUT]_vars

\* A was first updated, updated again 9 s later, and is still there with
\* its entries more than STALE_TIMEOUT + CLEANUP_PERIOD after the first.
C4_Witness ==
  /\ updates = 2 /\ upc = 0 /\ spc = "sleep"
  /\ lastUpdate["A"] - born["A"] = STALE_TIMEOUT - TicksPerSecond
  /\ now - born["A"] > STALE_TIMEOUT + CLEANUP_PERIOD
  /\ lastValues["A"] = FullReading
  /\ Tracked("A") /\ AllWritten("A") /\ ~evicted["A"]

\* ------------------------------------------------------------------------
\* C5  No orphaned metrics: with no update and no iteration in progress,
\* every address with an entry in some vector has an entry in last_seen.
\* ------------------------------------------------------------------------
C5_NoOrphans ==
  (upc = 0 /\ spc = "sleep") =>
    \A a \in Addresses, q \in QuantitySet : HasEntry(q, a) => Tracked(a)

\* ------------------------------------------------------------------------
\* C6  Presence with fixed conversion: once the latest update of a has
\* completed, and as long as the cleanup task has removed nothing of a since
\* it began, every quantity the reading carries has an entry for a holding
\* raw * 1e-3 (temperature, pressure), raw * 1e-4 (humidity), raw (battery
\* potential, as a float) or the raw integer (the two counters).
\* ------------------------------------------------------------------------
Decimal(m, e) == [m |-> m, e |-> e]

Claimed(q, raw) ==
  CASE q = "temperature"       -> Decimal(raw, -3)
    [] q = "humidity"          -> Decimal(raw, -4)
    [] q = "pressure"          -> Decimal(raw, -3)
    [] q = "battery_potential" -> Decimal(raw, 0)
    [] q = "movement_counter"  -> raw
    [] q = "sequence_number"   -> raw

C6_PresenceWithConversion ==
  \A a \in Addresses :
    (Known(a) /\ ~Updating(a) /\ ~swept[a]) =>
      \A q \in QuantitySet :
        IsSome(lastValues[a][q]) =>
          /\ HasEntry(q, a)
          /\ gauges[q][a] = Claimed(q, Unwrap(lastValues[a][q]))

\* An update of A with all six fields has completed, nothing was evicted.
C6_Witness ==
  /\ upc = 0 /\ Known("A") /\ ~swept["A"]
  /\ lastValues["A"] = FullReading
  /\ \A q \in QuantitySet : HasEntry(q, "A")
  /\ gauges["humidity"]["A"] = Decimal(455000, -4)

\* ------------------------------------------------------------------------
\* C7  Field omission: when update_sensor_values(address, values) returns,
\* address has no entry for the quantities values does not carry and has an
\* entry for those it carries.
\* ------------------------------------------------------------------------
C7_FieldOmission ==
  [][(upc = Len(Quantities) /\ upc' = 0) =>
       \A q \in QuantitySet :
         (address \in DOMAIN gauges'[q]) <=> IsSome(values[q])]_vars

\* ------------------------------------------------------------------------
\* C8  Independence across devices: a step of the cleanup task inside
\* remove_sensor_values for one address changes neither the last_seen entry
\* nor any gauge entry of another address.
\* ------------------------------------------------------------------------
EntryOf(map, a) == IF a \in DOMAIN map THEN Some(map[a]) ELSE None

C8_Independence ==
  [][(spc = "remove" /\ sidx' /= sidx) =>
       \A b \in Addresses \ {stale} :
         /\ EntryOf(last_seen', b) = EntryOf(last_seen, b)
         /\ \A q \in QuantitySet :
              EntryOf(gauges'[q], b) = EntryOf(gauges[q], b)]_vars

\* The cleanup task is evicting A, half way through the six removals, while
\* B is tracked, fresh, and has all six entries.
C8_Witness ==
  /\ spc = "remove" /\ stale = "A" /\ sidx = 4
  /\ Tracked("B") /\ IsFresh(sweep_now, last_seen["B"])
  /\ \A q \in QuantitySet : HasEntry(q, "B")

\* ------------------------------------------------------------------------
\* C9  Idempotent re-registration: when an update of an address that the
\* cleanup task evicted earlier returns (the task having removed nothing of
\* it during the call), the address is in last_seen and its six entries are
\* those the same call leaves in a registry that never saw the address.
\* ------------------------------------------------------------------------
FreshVec(q, a, v) == UpdateVec([x \in {} |-> 0], q, a, v)

C9_Reregistration ==
  [][(upc = Len(Quantities) /\ upc' = 0
        /\ evicted[address] /\ ~swept[address]) =>
       /\ address \in DOMAIN last_seen'
       /\ \A q \in QuantitySet :
            EntryOf(gauges'[q], address) =
              EntryOf(FreshVec(q, address, values), address)]_vars

\* A was evicted, then updated again with a temperature-only reading: it is
\* tracked and exposes the temperature alone.
C9_Witness ==
  /\ upc = 0 /\ evicted["A"] /\ ~swept["A"] /\ Tracked("A")
  /\ lastValues["A"] = TemperatureOnly
  /\ HasEntry("temperature", "A")
  /\ \A q \in QuantitySet \ {"temperature"} : ~HasEntry(q, "A")

\* ------------------------------------------------------------------------
\* C10  Full sweep with inclusive boundary: when retain() has visited every
\* entry, no entry that is STALE_TIMEOUT old or older is left in last_seen,
\* every address the iteration rejected is absent from the six vectors, and
\* every address updated less than STALE_TIMEOUT before the iteration's now
\* is still in last_seen.
\* ------------------------------------------------------------------------
C10_FullSweep ==
  (spc = "retain" /\ todo = {}) =>
    /\ \A a \in DOMAIN last_seen : sweep_now - last_seen[a] < STALE_TIMEOUT
    /\ \A a \in dropped : NoEntries(a)
    /\ \A a \in Addresses :
         (Known(a) /\ sweep_now - lastUpdate[a] < STALE_TIMEOUT) => Tracked(a)


-----------------------------------------------------------------------------
\* The families of a finished gather(), before they are encoded.
Gathered == gpc = Len(gorder) + 1

\* C11: a scrape is consistent.  The families a gather() returns show each
\* address either entirely before or entirely after every update: for some
\* reading, all six quantities of the address are as an update with that
\* reading leaves them (an address with no entry at all is as the reading
\* without fields leaves it).  Never some quantities of one update and others
\* of the state before it.
C11_ConsistentScrape ==
  Gathered =>
    \A a \in Addresses : \E v \in Readings : \A q \in QuantitySet :
      EntryOf(snapshot[q], a) = EntryOf(FreshVec(q, a, v), a)

\* C12: gather() is a pure read.  A step of the scrape handler changes no
\* last_seen entry and no entry of a metric vector, and evicts nothing.
C12_GatherIsPureRead ==
  [][scraper' /= scraper =>
       /\ last_seen' = last_seen
       /\ gauges' = gauges
       /\ evicted' = evicted
       /\ dropped' = dropped]_vars

\* A gather() has collected the six vectors of a tracked device.
C12_Witness ==
  /\ Gathered
  /\ Tracked("A")
  /\ \A q \in QuantitySet : "A" \in DOMAIN snapshot[q]

-----------------------------------------------------------------------------
\* The consumer has handled everything that is in the channel.
Drained == channel = << >> /\ upc = 0

\* The calls of update_sensor_values made for the i-th event handed over.
Calls(i) == {k \in 1..Len(applied) : applied[k].id = i}

\* C13: exactly-once delivery.  Once the consumer has drained the channel,
\* every event handed to the on_event callback whose advertisement decodes has
\* led to exactly one update_sensor_values call, and every other event to
\* none, whatever the arrival pattern.
C13_ExactlyOnce ==
  Drained =>
    \A i \in 1..Len(handed) :
      Cardinality(Calls(i)) = IF handed[i].decodes THEN 1 ELSE 0

\* C13, for a burst: when every event handed over so far announces a
\* decodable advertisement of the one device A, then once the consumer has
\* drained the channel there have been as many update_sensor_values calls as
\* events, even if the events arrived faster than the consumer received them.
C13_BurstLoss ==
  (Drained /\ \A i \in 1..Len(handed) :
                 handed[i].address = "A" /\ handed[i].decodes
                   /\ handed[i].kind /= "DeviceLost")
    => Len(applied) = Len(handed)

\* C14: per-device ordering.  The updates of one device are applied in the
\* order in which its events were handed to the on_event callback: the event
\* numbers of a device's updates increase, and the advertisement an update
\* applies is never older than the one applied before it.
C14_PerDeviceOrder ==
  \A j, k \in 1..Len(applied) :
    (j < k /\ applied[j].address = applied[k].address) =>
      /\ applied[j].id < applied[k].id
      /\ applied[j].data <= applied[k].data

\* Two events of one device have both led to an update, with an event of
\* the other device handed over in between.
C14_Witness ==
  /\ Len(applied) = 2
  /\ applied[1].address = "A"
  /\ applied[2].address = "A"
  /\ applied[2].id = applied[1].id + 2
  /\ Drained

-----------------------------------------------------------------------------
\* A step of a cleanup iteration that has started.
SweepStep == (\E a \in Addresses : SweepVisit(a)) \/ SweepRemove \/ SweepEnd

\* C15: the cleanup loop never panics.  While an iteration runs, every entry
\* it has yet to visit exists and carries a timestamp that is not later than
\* the iteration's now, so now - last_seen is never negative; while it evicts,
\* the address is in last_seen and the removal at hand is one of the six; and
\* the iteration can always take its next step, on an empty table and on an
\* address that some or all vectors lack alike, up to the end of the
\* iteration, after which the loop sleeps until the next tick.
C15_SweepNeverPanics ==
  /\ spc \in {"sleep", "retain", "remove"}
  /\ spc = "retain" =>
       /\ todo \subseteq DOMAIN last_seen
       /\ \A a \in todo : sweep_now >= last_seen[a]
  /\ spc = "remove" =>
       /\ stale \in todo
       /\ stale \in DOMAIN last_seen
       /\ sweep_now >= last_seen[stale]
       /\ sidx \in 1..Len(Quantities)
  /\ spc /= "sleep" => ENABLED SweepStep

\* An eviction of a device that reported its temperature only has gone past
\* the humidity and pressure vectors, which never held the address.
C15_Witness ==
  /\ spc = "remove"
  /\ sidx = 4
  /\ lastValues[stale] = TemperatureOnly
  /\ ~stalled[stale]
  /\ NoEntries(stale)

-----------------------------------------------------------------------------
\* C16: concurrent updates of one address do not mix.  When both callers have
\* returned and their latest calls were for the same address, the six entries
\* of the address are entirely those of the one call's reading or entirely
\* those of the other's.
C16_NoMixing ==
  (upc = 0 /\ upc2 = 0 /\ address = address2) =>
    \E v \in {values, values2} : \A q \in QuantitySet :
      EntryOf(gauges[q], address) = EntryOf(FreshVec(q, address, v), address)

-----------------------------------------------------------------------------
\* C17: an update is never undone by the watchdog's expiry.  Whenever the
\* eviction task of an address removes the address's entries, at least the
\* watchdog duration has passed since the latest update of the address moved
\* the watchdog's end.
C17_UpdateNotUndone ==
  \A a \in Addresses :
    (epc[a] = "remove" /\ lastUpdate[a] >= 0) =>
      now - lastUpdate[a] >= WATCHDOG_DURATION

\* C18: an expiry removes the address from all six vectors.  When the
\* eviction task of an address finishes, no vector holds the address,
\* whichever vectors held it when the task started.
C18_RemovesFromAll ==
  [][\A a \in Addresses :
       (epc[a] = "remove" /\ epc'[a] = "none") =>
         \A q \in QuantitySet : a \notin DOMAIN gauges'[q]]_vars

-----------------------------------------------------------------------------
\* The values a reading can carry for quantity q, and the reading v with its
\* field q replaced by f.
Fields(q) == {v[q] : v \in Readings}
WithField(v, q, f) == [v EXCEPT ![q] = f]

\* C19: record is idempotent and field-independent.  From every state of the
\* six vectors, for every address, every quantity and every value of its
\* field, with the other five fields all absent, all present or mixed:
\* applying the update's write a second time changes nothing; the quantity
\* ends up set to the converted value if the reading carries the field and
\* without an entry of the address if it does not, whatever the address had
\* before; and the entries of other addresses stay as they were.
C19_IdempotentFieldwise ==
  \A a \in Addresses, q \in QuantitySet :
    \A f \in Fields(q), others \in Readings :
      LET v == WithField(others, q, f)
          once == UpdateVec(gauges[q], q, a, v)
      IN  /\ UpdateVec(once, q, a, v) = once
          /\ EntryOf(once, a) =
               IF IsSome(f) THEN Some(Claimed(q, Unwrap(f))) ELSE None
          /\ \A b \in Addresses \ {a} :
               EntryOf(once, b) = EntryOf(gauges[q], b)

\* An update is under way whose reading the six vectors already hold from
\* the update before, with the other device present too.
C19_Witness ==
  /\ upc = 4
  /\ upc2 = 0
  /\ updates = MaxUpdates
  /\ values = FullReading
  /\ \A q \in QuantitySet :
       /\ EntryOf(gauges[q], address) = EntryOf(FreshVec(q, address, values), address)
       /\ \E b \in Addresses \ {address} : b \in DOMAIN gauges[q]

-----------------------------------------------------------------------------
\* No update and no cleanup iteration is in progress.
Quiet == upc = 0 /\ spc = "sleep"

\* C20 as stated: tracked devices are exposed.  With nothing in progress,
\* every address in last_seen that has ever reported a value has an entry in
\* at least one vector it has reported a value for, whatever the readings.
C20_TrackedExposed ==
  Quiet =>
    \A a \in Addresses :
      (Tracked(a) /\ reported[a] /= {}) =>
        \E q \in reported[a] : HasEntry(q, a)

\* C20, amended: with nothing in progress, every address in last_seen has an
\* entry in every vector that its latest reading carries a value for; so it
\* has an entry in at least one vector unless that reading carries none of
\* the six fields.
C20_TrackedExposedByLatest ==
  Quiet =>
    \A a \in Addresses :
      Tracked(a) =>
        \A q \in QuantitySet : IsSome(lastValues[a][q]) => HasEntry(q, a)

\* A device that reported all six quantities and then its temperature only
\* is tracked, with nothing in progress.
C20_Witness ==
  /\ Quiet
  /\ Tracked("A")
  /\ reported["A"] = QuantitySet
  /\ lastValues["A"] = TemperatureOnly
  /\ HasEntry("temperature", "A")
  /\ ~HasEntry("humidity", "A")

-----------------------------------------------------------------------------
\* C21: update_sensor_values sets last_seen[address] only after its six
\* per-quantity steps.  In no state does last_seen hold the timestamp of a
\* running call for its address while the call has not yet taken the first
\* of the six steps, the vectors being as the call found them.
C21_GaugesBeforeTimestamp ==
  \A a \in Addresses :
    (Updating(a) /\ Tracked(a) /\ last_seen[a] = lastUpdate[a]) => upc > 1

-----------------------------------------------------------------------------
\* The cleanup task is evicting a: retain() has rejected a's entry and
\* remove_sensor_values(a) is running.
Evicting(a) == spc = "remove" /\ stale = a

\* C22: eviction happens exactly once per silent period.  Once the sweep has
\* removed something of a since a's latest update and is no longer evicting
\* a, a is absent from last_seen, so that no later iteration visits it; every
\* removal the sweep performs is for an address that is in last_seen; and an
\* iteration starts evicting a only if the sweep has removed nothing of a
\* since a's latest update, which makes at most one eviction of a between an
\* update of a and the next.
C22_EvictsOncePerSilence ==
  /\ [](\A a \in Addresses :
          /\ (swept[a] /\ ~Evicting(a)) => ~Tracked(a)
          /\ Evicting(a) => Tracked(a))
  /\ [][\A a \in Addresses :
          (~Evicting(a) /\ Evicting(a)') => ~swept[a]]_vars

\* The sweep evicted A in the iteration due 10 s after A's only update, and
\* the next iteration has run and ended with nothing of A to remove.
C22_Witness ==
  /\ lastUpdate["A"] = 0
  /\ updates = 1
  /\ evicted["A"]
  /\ swept["A"]
  /\ ~Tracked("A")
  /\ NoEntries("A")
  /\ spc = "sleep"
  /\ next_tick = STALE_TIMEOUT + 2 * CLEANUP_PERIOD

-----------------------------------------------------------------------------
\* wait() of a's watchdog returns in this step.
WaitReturns(a) == epc[a] /= "expired" /\ epc'[a] = "expired"

\* A pet() of a's watchdog has been requested and has not moved the end yet:
\* it is queued for the watchdog's mutex or holds it.
PetPending(a) == address = a /\ wpc \in {"queued", "store"}

\* C23: the watchdog timer contract.  wait() returns only when the clock has
\* reached the watchdog's end, and that end is the time of the last completed
\* pet() plus the duration (the first pet() follows the creation within the
\* same call of update_sensor_values).  No pet() is pending when wait()
\* returns: a pet() is queued only behind a wait() that sleeps with the
\* mutex, the release at the end of the sleep passes the mutex to it, and
\* while it holds the mutex wait() does not return; so every pet() requested
\* before the deadline has moved the end by the time wait() can return.
C23_WatchdogContract ==
  /\ [](wpc = "queued" =>
          /\ wd_holder[address] = "wait"
          /\ epc[address] = "asleep")
  /\ [][\A a \in Addresses :
          /\ WaitReturns(a) =>
               /\ now >= watchdogs[a]
               /\ watchdogs[a] = lastUpdate[a] + WATCHDOG_DURATION
               /\ ~PetPending(a)
          /\ (PetPending(a) /\ ~PetPending(a)') =>
               watchdogs'[a] = now + WATCHDOG_DURATION]_vars

\* A second update of A called pet() before the deadline of the first one
\* and waited for the mutex while wait() slept; it was given the mutex at the
\* deadline and moved the end, and wait() sleeps again, until the new end.
C23_Witness ==
  /\ updates = 2
  /\ stalled["A"]
  /\ wpc = "idle"
  /\ lastUpdate["A"] = WATCHDOG_DURATION
  /\ watchdogs = [a \in {"A"} |-> 2 * WATCHDOG_DURATION]
  /\ epc["A"] = "asleep"
  /\ wd_holder["A"] = "wait"
  /\ wake["A"] = 2 * WATCHDOG_DURATION

====
